---- MODULE Spec2Model ----
(***************************************************************************)
(* cplotgibb: a figure is built in memory (plt_figure, the plt_* setters,  *)
(* plt_plot / plt_stem) and written as pgfplots markup by plt_save_fig,    *)
(* which for a target ending in .eps or .pdf wraps the markup in a         *)
(* standalone document, runs pdflatex on it and removes the intermediate   *)
(* files.                                                                  *)
(*                                                                         *)
(* Strings that the code only copies and compares (axis type, labels,      *)
(* colors, legends) are TLA+ strings; they are assumed to fit the char     *)
(* arrays they are strcpy'd into.  The target file name is a sequence of   *)
(* characters, because plt_save_fig takes it apart.  A double is an        *)
(* integer count of 10^-7 units, so that printf's "%f" (six fractional     *)
(* digits) is a rounding and not the identity.                             *)
(***************************************************************************)
EXTENDS Integers, Sequences, FiniteSets, TLC

(***************************************************************************)
(* Bounds of the exploration.                                              *)
(***************************************************************************)
\* builder calls (setters and plotting calls) made before plt_save_fig
MaxCalls == 2
\* builder calls made under SpecPipe, which tries every target instead
PipeCalls == 1
\* length of the longest caller array, and the largest data_len passed
MaxLen == 2

(***************************************************************************)
(* Inputs.                                                                 *)
(***************************************************************************)
\* the caller's x array: MaxLen doubles (in 10^-7 units; 24 is 0.0000024)
XArray == [i \in 1..MaxLen |-> 10000000 * (i - 1) + 24]
\* the caller's y arrays: one of MaxLen doubles, one a double shorter
YFull == [i \in 1..MaxLen |-> 0 - (5000000 * i + 16)]
YArrays == {YFull, SubSeq(YFull, 1, MaxLen - 1)}
\* the data_len passed: the length of the shorter y array, or of the longer
DataLens == (MaxLen - 1)..MaxLen
\* what a read past the end of an array may find
Garbage == {0, 77}
\* what malloc'd, never written memory may hold: a double, an unsigned char
GarbageDouble == {0, 31415927}
GarbageByte == {0, 1, 2}
Colors == {"", "teal"}
Legends == {"", "$y_1(t)$"}
AxisTypes == {"standard", "center", "polar"}
Mins == {0, -11000000}
Maxs == {0, 100000000}
Dims == {0, 120000000}
Labels == {"", "$t$"}
LegendPositions == {"", "north east", "middle"}

T_pdf == <<"o", ".", "p", "d", "f">>
T_eps == <<"o", ".", "e", "p", "s">>
T_tex == <<"o", ".", "t", "e", "x">>
T_none == <<"o", "u", "t">>
T_upper == <<"o", ".", "P", "D", "F">>
T_longer == <<"o", ".", "p", "d", "f", "x">>
T_inner == <<"o", ".", "p", "d", "f", ".", "t", "x", "t">>
T_twodots == <<"a", ".", "b", ".", "e", "p", "s">>
T_nodotpdf == <<"o", "p", "d", "f">>
\* the targets tried with a deep builder phase, and all of them
FigTargets == {T_pdf, T_tex}
Targets == {T_pdf, T_eps, T_tex, T_none, T_upper, T_longer, T_inner,
            T_twodots, T_nodotpdf}

VARIABLES
  pc,      \* where the driver is: "build", inside plt_save_fig, or ended
  fig,     \* the plt structure
  uninit,  \* fields of fig that were malloc'd and never written
  heap,    \* which allocations are live: the figure, its series
  budget,  \* builder calls the driver still makes
  loc,     \* plt_save_fig's locals: ext, filename_no_ext, filename_tex
  fp,      \* plt_save_fig's FILE *: state and path
  out,     \* what has been written through fp, one item per fprintf
  files,   \* the files that exist
  sys,     \* the commands passed to system(), with their exit status
  msgs,    \* the messages printed to stdout and stderr
  events,  \* the steps plt_save_fig has taken, in order
  hist     \* history: the target, and every plotting call with its arguments
           \* and the values its loop read (none when the read faulted)

vars == <<pc, fig, uninit, heap, budget, loc, fp, out, files, sys, msgs,
          events, hist>>

(***************************************************************************)
(* plt_figure: the state after construction.  grid, width and height are   *)
(* not assigned: they keep whatever malloc returned.                       *)
(***************************************************************************)
NoLoc == [ext |-> <<>>, has_ext |-> FALSE, filename_no_ext |-> <<>>,
          filename_tex |-> <<>>]
NoFile == [state |-> "none", path |-> <<>>]

plt_figure(filename) ==
  [filename |-> filename, type |-> "standard", xlabel |-> "", ylabel |-> "",
   legend_position |-> "", xmin |-> 0, xmax |-> 0, ymin |-> 0, ymax |-> 0,
   grid |-> 0, width |-> 0, height |-> 0, data |-> <<>>]

plt_figure_uninit == {"grid", "width", "height"}

InitWith(targets, calls) ==
  /\ pc = "build"
  /\ \E t \in targets : fig = plt_figure(t) /\ hist = [target |-> t, adds |-> <<>>]
  /\ uninit = plt_figure_uninit
  /\ heap = [figure |-> "live", series |-> <<>>]
  /\ budget = calls
  /\ loc = NoLoc
  /\ fp = NoFile
  /\ out = <<>>
  /\ files = {}
  /\ sys = <<>>
  /\ msgs = <<>>
  /\ events = <<>>

Init == InitWith(FigTargets, MaxCalls)
InitPipe == InitWith(Targets, PipeCalls)

(***************************************************************************)
(* The setters.  Each is one assignment or strcpy into the figure.         *)
(***************************************************************************)
Call == pc = "build" /\ budget > 0 /\ budget' = budget - 1

SetterFrame == UNCHANGED <<pc, heap, loc, fp, out, files, sys, msgs, events, hist>>

plt_axes_type ==
  /\ Call
  /\ \E type \in AxisTypes : fig' = [fig EXCEPT !.type = type]
  /\ UNCHANGED uninit
  /\ SetterFrame

\* a slip: the y bounds are assigned too
plt_xlim_sets_ylim ==
  /\ Call
  /\ \E xmin \in Mins, xmax \in Maxs :
       fig' = [fig EXCEPT !.xmin = xmin, !.xmax = xmax, !.ymin = xmin, !.ymax = xmax]
  /\ UNCHANGED uninit
  /\ SetterFrame
plt_xlim ==
  /\ Call
  /\ \E xmin \in Mins, xmax \in Maxs :
       fig' = [fig EXCEPT !.xmin = xmin, !.xmax = xmax]
  /\ UNCHANGED uninit
  /\ SetterFrame

plt_ylim ==
  /\ Call
  /\ \E ymin \in Mins, ymax \in Maxs :
       fig' = [fig EXCEPT !.ymin = ymin, !.ymax = ymax]
  /\ UNCHANGED uninit
  /\ SetterFrame

plt_dims ==
  /\ Call
  /\ \E width \in Dims, height \in Dims :
       fig' = [fig EXCEPT !.width = width, !.height = height]
  /\ uninit' = uninit \ {"width", "height"}
  /\ SetterFrame

plt_grid ==
  /\ Call
  /\ fig' = [fig EXCEPT !.grid = 1]
  /\ uninit' = uninit \ {"grid"}
  /\ SetterFrame

plt_xlabel ==
  /\ Call
  /\ \E xlabel \in Labels : fig' = [fig EXCEPT !.xlabel = xlabel]
  /\ UNCHANGED uninit
  /\ SetterFrame

plt_ylabel ==
  /\ Call
  /\ \E ylabel \in Labels : fig' = [fig EXCEPT !.ylabel = ylabel]
  /\ UNCHANGED uninit
  /\ SetterFrame

plt_legend_pos ==
  /\ Call
  /\ \E position \in LegendPositions :
       fig' = [fig EXCEPT !.legend_position = position]
  /\ UNCHANGED uninit
  /\ SetterFrame

(***************************************************************************)
(* plt_plot, plt_stem.  The call takes one length, data_len, for both      *)
(* arrays and copies x[i], y[i] for i < data_len into data[2i], data[2i+1] *)
(* (here 1-based: data[2i-1], data[2i]).  An element read past the end of  *)
(* a caller array is whatever lies there, or the read faults.              *)
(***************************************************************************)
\* the values the loop reads from array a for indexes 1..data_len
Reads(a, data_len) ==
  {r \in [1..data_len -> Garbage \cup {a[i] : i \in 1..Len(a)}] :
     \A i \in 1..data_len : i <= Len(a) => r[i] = a[i]}


\* a slip: the shorter read decides the length
new_plot_data_truncating(type, xr, yr, data_len, color, legend_entry) ==
  [length |-> data_len - 1, type |-> type, color |-> color, legend |-> legend_entry,
   data |-> [j \in 1..(2 * (data_len - 1)) |->
               IF j % 2 = 1 THEN xr[(j + 1) \div 2] ELSE yr[j \div 2]]]
new_plot_data(type, xr, yr, data_len, color, legend_entry) ==
  [length |-> data_len, type |-> type, color |-> color, legend |-> legend_entry,
   data |-> [j \in 1..(2 * data_len) |->
               IF j % 2 = 1 THEN xr[(j + 1) \div 2] ELSE yr[j \div 2]]]


\* a slip: the new node is linked in at the head
prepend_plot_data(list, data_in) == <<data_in>> \o list
\* figure->data == NULL, or the walk to the last node: the new node goes last
append_plot_data(list, data_in) == Append(list, data_in)

AddSeries(type) ==
  /\ Call
  /\ \E y \in YArrays, data_len \in DataLens, color \in Colors,
        legend_entry \in Legends :
       LET x == XArray
           call == [type |-> type, color |-> color, legend |-> legend_entry,
                    x |-> x, y |-> y, data_len |-> data_len,
                    xr |-> <<>>, yr |-> <<>>]
       IN  \/ /\ \E xr \in Reads(x, data_len), yr \in Reads(y, data_len) :
                   /\ fig' = [fig EXCEPT !.data = append_plot_data(
                                fig.data,
                                new_plot_data(type, xr, yr, data_len, color,
                                              legend_entry))]
                   /\ hist' = [hist EXCEPT !.adds =
                                Append(@, [call EXCEPT !.xr = xr, !.yr = yr])]
              /\ heap' = [heap EXCEPT !.series = Append(heap.series, "live")]
              /\ UNCHANGED pc
           \/ /\ data_len > Len(x) \/ data_len > Len(y)
              /\ pc' = "crashed"
              /\ hist' = [hist EXCEPT !.adds = Append(@, call)]
              /\ UNCHANGED <<fig, heap>>
  /\ UNCHANGED <<uninit, loc, fp, out, files, sys, msgs, events>>

plt_plot == AddSeries("plot")

plt_stem == AddSeries("stem")


(***************************************************************************)
(* The markup.  Every fprintf is one item of the output; an item keeps the *)
(* values its format string prints.                                        *)
(***************************************************************************)
\* printf's "%f" of a double held in 10^-7 units: its value in 10^-6 units,
\* rounded to nearest (the inputs hold no tie)
Fmt(v) == IF v >= 0 THEN (v + 5) \div 10 ELSE 0 - ((5 - v) \div 10)

Item(k) == [k |-> k]
TextItem(k, s) == [k |-> k, s |-> s]

\* the coordinate lines "    (%f,%f)\n" of one series
coordinates(data_in) ==
  [i \in 1..data_in.length |->
     [k |-> "coord", x |-> Fmt(data_in.data[2 * i - 1]),
      y |-> Fmt(data_in.data[2 * i])]]


\* a slip: the legend line is written whatever the legend
legend_entry_unconditional(data_in) ==
  <<TextItem("addlegendentry", data_in.legend)>>
legend_entry_of(data_in) ==
  IF data_in.legend # "" THEN <<TextItem("addlegendentry", data_in.legend)>>
  ELSE <<>>

add_plot(data_in) ==
  <<Item("addplot")>>
  \o (IF data_in.color # "" THEN <<TextItem("color", data_in.color)>> ELSE <<>>)
  \o <<Item("coordinates")>>
  \o coordinates(data_in)
  \o <<Item("end_coordinates")>>
  \o legend_entry_of(data_in)

add_stem(data_in) ==
  <<TextItem("addplot_ycomb", data_in.color)>>
  \o coordinates(data_in)
  \o <<Item("end_coordinates")>>
  \o legend_entry_of(data_in)

\* write_data: the items written for the list, and whether the walk reached
\* its end (it stops at a node that is neither "plot" nor "stem": exit(1))
RECURSIVE write_data(_)
write_data(list) ==
  IF list = <<>> THEN [items |-> <<>>, ok |-> TRUE]
  ELSE LET current == Head(list)
           rest == write_data(Tail(list))
       IN  IF current.type = "plot"
             THEN [items |-> add_plot(current) \o rest.items, ok |-> rest.ok]
           ELSE IF current.type = "stem"
             THEN [items |-> add_stem(current) \o rest.items, ok |-> rest.ok]
           ELSE [items |-> <<>>, ok |-> FALSE]

\* the option lines, given the values read for grid, width and height
axis_options(f, grid, width, height) ==
  (IF f.xmin # 0 \/ f.xmax # 0
     THEN <<[k |-> "xrange", min |-> Fmt(f.xmin), max |-> Fmt(f.xmax)]>> ELSE <<>>)
  \o (IF f.ymin # 0 \/ f.ymax # 0
     THEN <<[k |-> "yrange", min |-> Fmt(f.ymin), max |-> Fmt(f.ymax)]>> ELSE <<>>)
  \o (IF grid = 1 THEN <<Item("grid")>> ELSE <<>>)
  \o (IF width # 0 THEN <<[k |-> "width", cm |-> Fmt(width)]>> ELSE <<>>)
  \o (IF height # 0 THEN <<[k |-> "height", cm |-> Fmt(height)]>> ELSE <<>>)
  \o (IF f.xlabel # "" THEN <<TextItem("xlabel", f.xlabel)>> ELSE <<>>)
  \o (IF f.ylabel # "" THEN <<TextItem("ylabel", f.ylabel)>> ELSE <<>>)
  \o (IF f.legend_position # ""
     THEN <<TextItem("legend_pos", f.legend_position)>> ELSE <<>>)

axis_open == <<Item("begin_tikzpicture"), Item("begin_axis"), Item("open_bracket")>>
axis_close == <<Item("end_axis"), Item("end_tikzpicture")>>
preamble == <<Item("documentclass"), Item("usepackage"), Item("pgfplotsset"),
              Item("begin_document")>>

\* the values a read of field name may yield
ReadField(name, value, garbage) == IF name \in uninit THEN garbage ELSE {value}

(***************************************************************************)
(* plt_save_fig.  Its steps are operators on the part of the state it      *)
(* changes, st = [pc, loc, fp, out, files, sys, msgs, events, heap]; the   *)
(* action plt_save_fig below runs them in the order of the code.  The      *)
(* outcomes of fopen and of the two system() calls are inputs.             *)
(***************************************************************************)
DotEps == <<".", "e", "p", "s">>
DotPdf == <<".", "p", "d", "f">>
DotTex == <<".", "t", "e", "x">>
DotAux == <<".", "a", "u", "x">>
DotLog == <<".", "l", "o", "g">>


\* a slip: strchr, the first c
strchr(s, c) ==
  IF \E i \in 1..Len(s) : s[i] = c
    THEN CHOOSE i \in 1..Len(s) : s[i] = c /\ \A j \in 1..(i - 1) : s[j] # c
    ELSE 0
\* strrchr(s, c): the index of the last c in s, 0 for NULL
strrchr(s, c) ==
  IF \E i \in 1..Len(s) : s[i] = c
    THEN CHOOSE i \in 1..Len(s) : s[i] = c /\ \A j \in (i + 1)..Len(s) : s[j] # c
    ELSE 0

\* ext != NULL && (strcmp(ext, ".eps") == 0 || strcmp(ext, ".pdf") == 0)
is_compiled(l) == l.has_ext /\ (l.ext = DotEps \/ l.ext = DotPdf)

\* lines 558-569: ext and filename_no_ext
save_locals(filename) ==
  LET dot == strrchr(filename, ".")
      no_ext == IF dot # 0 THEN SubSeq(filename, 1, dot - 1) ELSE filename
      ext == IF dot # 0 THEN SubSeq(filename, dot, Len(filename)) ELSE <<>>
  IN  [ext |-> ext, has_ext |-> dot # 0, filename_no_ext |-> no_ext,
       filename_tex |-> <<>>]

\* fopen(path, "w"): the stream, and the file it created
fopen(st, path, ok) ==
  IF ok THEN [st EXCEPT !.fp = [state |-> "open", path |-> path],
                        !.files = @ \cup {path},
                        !.events = Append(@, "fopen")]
  ELSE [st EXCEPT !.fp = [state |-> "null", path |-> path],
                  !.events = Append(@, "fopen")]

\* fprintf(fp, ...) of items: a NULL fp that did not fault writes nothing
fprintf(st, items) ==
  IF st.fp.state = "open" THEN [st EXCEPT !.out = @ \o items] ELSE st

\* exit(1) after printing message
exit_with(st, message) == [st EXCEPT !.msgs = Append(@, message), !.pc = "exited"]

\* lines 571-592: the mode is chosen and the output file opened
save_open(st, filename, ok) ==
  LET l == save_locals(filename) IN
  IF is_compiled(l)
    THEN LET tex == l.filename_no_ext \o DotTex
             s1 == fopen([st EXCEPT !.loc = [l EXCEPT !.filename_tex = tex]],
                         tex, ok)
         IN  IF s1.fp.state = "null"
               THEN exit_with(s1, "Error: Could not open file")
               ELSE [fprintf(s1, preamble) EXCEPT !.events = Append(@, "preamble"),
                                                  !.pc = "opened"]
    ELSE [fopen([st EXCEPT !.loc = l], filename, ok) EXCEPT !.pc = "opened"]

\* the center block ends without a newline: the next item shares its line
axis_lines(type) == IF type = "center" THEN <<Item("axis_lines_center")>> ELSE <<>>


\* a slip: the axis type is not checked
unchecked_axis_type(type) == TRUE
valid_axis_type(type) == type = "center" \/ type = "standard"

\* lines 594-668: the figure markup, given the values read for the fields
\* plt_figure left unwritten
save_render(st, f, grid, width, height) ==
  LET s1 == [fprintf(st, axis_open) EXCEPT !.events = Append(@, "body")] IN
  IF ~valid_axis_type(f.type)
    THEN exit_with(s1, "ERROR: please set axis type")
    ELSE LET series == write_data(f.data)
             s2 == fprintf(s1, axis_lines(f.type)
                               \o axis_options(f, grid, width, height)
                               \o <<Item("close_bracket")>> \o series.items)
         IN  IF series.ok
               THEN [fprintf(s2, axis_close) EXCEPT !.pc = "rendered"]
               ELSE exit_with(s2, "ERROR: invalid plot type")

\* free(p): a block is released once; a second free of it is an error
free(cell) == IF cell = "live" THEN "freed" ELSE "double_free"

\* a slip: only the figure is freed, the list is not walked
clean_up_figure_only(h) == [h EXCEPT !.figure = free(@)]
\* clean_up: every node of the list is freed, then the figure
clean_up(h) ==
  [figure |-> free(h.figure), series |-> [i \in 1..Len(h.series) |-> free(h.series[i])]]

\* lines 671-676 and 706-708: the document is closed (compiled mode) and the
\* figure released
save_clean_up(st) ==
  LET s1 == IF is_compiled(st.loc)
              THEN [fprintf(st, <<Item("end_document")>>)
                      EXCEPT !.events = Append(@, "end_document")]
              ELSE st
  IN  [s1 EXCEPT !.heap = clean_up(@), !.events = Append(@, "clean_up"),
                 !.pc = "cleaned"]

\* a slip: fclose is left out
save_close_skipped(st) ==
  [st EXCEPT !.pc = IF is_compiled(st.loc) THEN "closed" ELSE "returned"]
\* lines 679 and 711: fclose(fp); in raw mode plt_save_fig then returns
save_close(st) ==
  [st EXCEPT !.fp.state = IF @ = "open" THEN "closed" ELSE @,
             !.events = Append(@, "fclose"),
             !.pc = IF is_compiled(st.loc) THEN "closed" ELSE "returned"]

\* the files pdflatex leaves beside the job: the document and two auxiliaries
Aux(base) == {base \o DotAux, base \o DotLog}
Artifact(base) == base \o DotPdf
Status == {0, 256}

\* a slip: the status of pdflatex is not looked at
save_compile_unchecked(st, result, left) ==
  [st EXCEPT !.sys = Append(@, [cmd |-> "pdflatex",
                                args |-> <<st.loc.filename_tex>>,
                                result |-> result]),
             !.events = Append(@, "pdflatex"),
             !.files = @ \cup Aux(st.loc.filename_no_ext)
                         \cup {Artifact(st.loc.filename_no_ext)},
             !.pc = "compiled"]

\* lines 682-691: system("pdflatex <filename_tex>"); a run that fails leaves
\* the files in left
save_compile(st, result, left) ==
  LET s1 == [st EXCEPT !.sys = Append(@, [cmd |-> "pdflatex",
                                         args |-> <<st.loc.filename_tex>>,
                                         result |-> result]),
                       !.events = Append(@, "pdflatex")]
  IN  IF result # 0
        THEN exit_with([s1 EXCEPT !.files = @ \cup left],
                       "Error: Failed to compile LaTeX file.")
        ELSE [s1 EXCEPT !.files = @ \cup Aux(st.loc.filename_no_ext)
                                    \cup {Artifact(st.loc.filename_no_ext)},
                        !.pc = "compiled"]

\* the files named on the rm command line
rm_args(l) == <<l.filename_tex, l.filename_no_ext \o DotAux,
                l.filename_no_ext \o DotLog>>

Range(seq) == {seq[i] : i \in 1..Len(seq)}

\* a slip: rm is given the .aux and .log files only
save_remove_keeps_tex(st, result, kept) ==
  LET gone == Range(rm_args(st.loc)) \ {st.loc.filename_tex}
      s1 == [st EXCEPT !.msgs = Append(@, "rm"),
                       !.sys = Append(@, [cmd |-> "rm", args |-> rm_args(st.loc),
                                         result |-> result]),
                       !.events = Append(@, "rm")]
  IN  IF result # 0
        THEN exit_with([s1 EXCEPT !.files = (@ \ gone) \cup (@ \cap kept)],
                       "Error: Failed to remove temporary .tex file.")
        ELSE [s1 EXCEPT !.files = @ \ gone, !.pc = "returned"]

\* lines 694-703: system("rm <tex> <base>.aux <base>.log"), echoed first; a
\* run that fails leaves the files in kept
save_remove(st, result, kept) ==
  LET s1 == [st EXCEPT !.msgs = Append(@, "rm"),
                       !.sys = Append(@, [cmd |-> "rm", args |-> rm_args(st.loc),
                                         result |-> result]),
                       !.events = Append(@, "rm")]
  IN  IF result # 0
        THEN exit_with([s1 EXCEPT !.files = (@ \ Range(rm_args(st.loc)))
                                           \cup (@ \cap kept)],
                       "Error: Failed to remove temporary .tex file.")
        ELSE [s1 EXCEPT !.files = @ \ Range(rm_args(st.loc)), !.pc = "returned"]

\* what a failed pdflatex, a failed rm may leave behind
LeftBy(l) == {{}, Aux(l.filename_no_ext)}
KeptBy(l) == {Range(rm_args(l))} \cup {{a} : a \in Range(rm_args(l))}

Saved ==
  [pc |-> pc, loc |-> loc, fp |-> fp, out |-> out, files |-> files, sys |-> sys,
   msgs |-> msgs, events |-> events, heap |-> heap]

Commit(st) ==
  /\ pc' = st.pc
  /\ loc' = st.loc
  /\ fp' = st.fp
  /\ out' = st.out
  /\ files' = st.files
  /\ sys' = st.sys
  /\ msgs' = st.msgs
  /\ events' = st.events
  /\ heap' = st.heap

\* a write through a NULL stream is undefined: the process faults there
fault(st) == [st EXCEPT !.pc = "crashed"]

\* lines 671-713, after the markup: release, close, and in compiled mode
\* compile and remove
SaveFinish(s2) ==
  LET s4 == save_close(save_clean_up(s2)) IN
  IF s4.pc = "returned"
    THEN Commit(s4)
    ELSE \E result \in Status :
           IF result # 0
             THEN \E left \in LeftBy(s4.loc) : Commit(save_compile(s4, result, left))
             ELSE LET s5 == save_compile(s4, result, {}) IN
                  \E removed \in Status :
                    IF removed # 0
                      THEN \E kept \in KeptBy(s5.loc) :
                             Commit(save_remove(s5, removed, kept))
                      ELSE Commit(save_remove(s5, removed, {}))

\* lines 594-669: the markup; the reads of grid, width and height yield any
\* value where plt_figure left the field unwritten
SaveBody(s1) ==
  \E grid \in ReadField("grid", fig.grid, GarbageByte),
     width \in ReadField("width", fig.width, GarbageDouble),
     height \in ReadField("height", fig.height, GarbageDouble) :
    LET s2 == save_render(s1, fig, grid, width, height) IN
    IF s2.pc = "exited" THEN Commit(s2) ELSE SaveFinish(s2)

plt_save_fig ==
  /\ pc = "build"
  /\ \E ok \in BOOLEAN :
       LET s1 == save_open(Saved, fig.filename, ok) IN
       IF s1.pc = "exited" THEN Commit(s1)
       ELSE IF s1.fp.state = "null"
         THEN \/ Commit(fault([s1 EXCEPT !.events = Append(@, "body")]))
              \/ LET s2 == save_close(save_clean_up(
                             save_render(s1, fig, 0, 0, 0))) IN
                 /\ valid_axis_type(fig.type)
                 /\ \/ Commit(fault(s2))
                    \/ Commit(s2)
              \/ /\ ~valid_axis_type(fig.type)
                 /\ Commit(save_render(s1, fig, 0, 0, 0))
       ELSE SaveBody(s1)
  /\ UNCHANGED <<fig, uninit, budget, hist>>

Next ==
  \/ plt_axes_type
  \/ plt_xlim
  \/ plt_ylim
  \/ plt_dims
  \/ plt_grid
  \/ plt_xlabel
  \/ plt_ylabel
  \/ plt_legend_pos
  \/ plt_plot
  \/ plt_stem
  \/ plt_save_fig

Spec == Init /\ [][Next]_vars
SpecPipe == InitPipe /\ [][Next]_vars

(***************************************************************************)
(* Reading the output back: the plot-entries and the option lines.         *)
(***************************************************************************)
Last(seq) == seq[Len(seq)]
IndexOf(o, k) == CHOOSE i \in 1..Len(o) : o[i].k = k
Has(o, k) == \E i \in 1..Len(o) : o[i].k = k
Starts(o) == {i \in 1..Len(o) : o[i].k \in {"addplot", "addplot_ycomb"}}
NthStart(o, n) ==
  CHOOSE i \in Starts(o) : Cardinality({j \in Starts(o) : j < i}) = n - 1
\* the n-th plot-entry: from its header to the item before the next header,
\* or before the end of the axis block
Entry(o, n) ==
  SubSeq(o, NthStart(o, n),
         IF n < Cardinality(Starts(o)) THEN NthStart(o, n + 1) - 1
         ELSE IndexOf(o, "end_axis") - 1)
EntryKind(e) == IF e[1].k = "addplot" THEN "plot" ELSE "stem"
EntryColor(e) ==
  IF e[1].k = "addplot_ycomb" THEN e[1].s
  ELSE IF Has(e, "color") THEN e[IndexOf(e, "color")].s ELSE ""
EntryLegend(e) ==
  IF Has(e, "addlegendentry") THEN e[IndexOf(e, "addlegendentry")].s ELSE ""
IsCoord(item) == item.k = "coord"
EntryCoords(e) ==
  LET c == SelectSeq(e, IsCoord) IN [i \in 1..Len(c) |-> <<c[i].x, c[i].y>>]
\* the points of a series as it was added, as six-digit decimals
PointsOf(add) == [i \in 1..add.data_len |-> <<Fmt(add.xr[i]), Fmt(add.yr[i])>>]
\* the option lines: what lies between the axis block's "[" (and the center
\* block) and its "]"
IsOption(item) ==
  item.k \in {"xrange", "yrange", "grid", "width", "height", "xlabel", "ylabel",
              "legend_pos"}
OptionKinds(o) ==
  LET b == SubSeq(o, IndexOf(o, "open_bracket") + 1, IndexOf(o, "close_bracket") - 1)
      c == SelectSeq(b, IsOption)
  IN  [i \in 1..Len(c) |-> c[i].k]
\* plt_save_fig wrote the whole figure body to a file it had opened
BodyWritten == fp.state = "closed"
SaveStarted == events # <<>>

(***************************************************************************)
(* C1.  Whenever plt_save_fig has written the figure body, the output      *)
(* holds exactly as many plot-entries as plotting calls were made, and the *)
(* i-th entry has the kind, color, legend and coordinate list (the same    *)
(* points in the same order, each component as printed by "%f") of the     *)
(* i-th series added.                                                      *)
(***************************************************************************)
C1_EntriesInOrder ==
  BodyWritten =>
    /\ Cardinality(Starts(out)) = Len(hist.adds)
    /\ \A n \in 1..Len(hist.adds) :
         LET e == Entry(out, n)
             a == hist.adds[n]
         IN  /\ EntryKind(e) = a.type
             /\ EntryColor(e) = a.color
             /\ EntryLegend(e) = a.legend
             /\ EntryCoords(e) = PointsOf(a)

C1_Witness ==
  /\ BodyWritten
  /\ Len(hist.adds) = 2
  /\ hist.adds[1].type = "plot" /\ hist.adds[2].type = "stem"
  /\ hist.adds[1].color = "teal" /\ hist.adds[2].color = ""
  /\ hist.adds[1].data_len = MaxLen
  /\ Cardinality(Starts(out)) = 2

(***************************************************************************)
(* C2.  plt_save_fig runs in compiled mode exactly when the target's text  *)
(* from its last "." on is ".eps" or ".pdf": then it opens <base>.tex,     *)
(* writes the preamble first, and one that returns has written the         *)
(* document close and run pdflatex and rm; for every other target it       *)
(* opens the target itself, writes no wrapper line, creates no other file  *)
(* and runs no command.                                                    *)
(***************************************************************************)
CompiledSuffix(t) ==
  \E k \in 1..Len(t) :
    /\ t[k] = "."
    /\ \A j \in (k + 1)..Len(t) : t[j] # "."
    /\ SubSeq(t, k, Len(t)) \in {DotEps, DotPdf}
Wrapper == {"documentclass", "usepackage", "pgfplotsset", "begin_document",
            "end_document"}
C2_ModeBySuffix ==
  SaveStarted =>
    IF CompiledSuffix(hist.target)
      THEN /\ fp.path = SubSeq(hist.target, 1, Len(hist.target) - 4) \o DotTex
           /\ fp.state # "null" => SubSeq(out, 1, 4) = preamble
           /\ pc = "returned" =>
                /\ Last(out).k = "end_document"
                /\ Len(sys) = 2 /\ sys[1].cmd = "pdflatex" /\ sys[2].cmd = "rm"
      ELSE /\ fp.path = hist.target
           /\ \A i \in 1..Len(out) : out[i].k \notin Wrapper
           /\ files \subseteq {hist.target}
           /\ sys = <<>>
           /\ BodyWritten =>
                /\ out[1].k = "begin_tikzpicture"
                /\ Last(out).k = "end_tikzpicture"
                /\ files = {hist.target}

C2_Witness ==
  /\ hist.target = T_twodots
  /\ pc = "returned"
  /\ Len(sys) = 2
  /\ fp.path = <<"a", ".", "b">> \o DotTex

(***************************************************************************)
(* C3.  In compiled mode, when the intermediate file opens and pdflatex    *)
(* and rm both exit with 0, the steps are, in this order: preamble, figure *)
(* body, document close, release of the figure and its series, fclose,     *)
(* pdflatex on the intermediate file, rm; and at the end <base>.tex,       *)
(* <base>.aux and <base>.log do not exist, while <base>.pdf does.          *)
(***************************************************************************)
BothSucceeded == Len(sys) = 2 /\ sys[1].result = 0 /\ sys[2].result = 0
CompileError == "Error: Failed to compile LaTeX file."
RemoveError == "Error: Failed to remove temporary .tex file."
C4_ExternalFailures ==
  /\ Len(sys) <= 2
  /\ Len(sys) >= 1 => sys[1].cmd = "pdflatex"
  /\ Len(sys) = 2 => sys[2].cmd = "rm" /\ sys[1].result = 0
  /\ (Len(sys) >= 1 /\ sys[1].result # 0) =>
       /\ Len(sys) = 1
       /\ pc = "exited"
       /\ Last(msgs) = CompileError
  /\ (Len(sys) = 2 /\ sys[2].result # 0) =>
       /\ pc = "exited"
       /\ Last(msgs) = RemoveError
       /\ Last(msgs) # CompileError

C4_Witness ==
  /\ Len(sys) = 2
  /\ sys[2].result # 0
  /\ pc = "exited"

(***************************************************************************)
(* C5.  As claimed: a plotting call whose x and y arrays differ in length  *)
(* fails and leaves the series collection as it was.                       *)
(***************************************************************************)
Mismatched(a) == Len(a.x) # Len(a.y)
C5_MismatchRejected ==
  [][(Len(hist'.adds) = Len(hist.adds) + 1 /\ Mismatched(Last(hist'.adds)))
       => (fig'.data = fig.data /\ pc' = pc)]_vars

(***************************************************************************)
(* C5, amended.  A plotting call is given one length, data_len, and never  *)
(* rejects its arrays: unless a read past the end of an array faults (only *)
(* possible when data_len exceeds an array's length, and then the process  *)
(* dies in that call), it appends exactly one series of data_len points,   *)
(* whose components within both arrays are x[i], y[i]; so arrays of        *)
(* different lengths are silently truncated to data_len.                   *)
(***************************************************************************)
PlotFaulted == pc = "crashed" /\ events = <<>>
C5_AlwaysAppends ==
  /\ Len(fig.data) = Len(hist.adds) - (IF PlotFaulted THEN 1 ELSE 0)
  /\ \A i \in 1..Len(fig.data) :
       LET d == fig.data[i]
           a == hist.adds[i]
       IN  /\ d.length = a.data_len /\ Len(d.data) = 2 * a.data_len
           /\ d.type = a.type /\ d.color = a.color /\ d.legend = a.legend
           /\ \A j \in 1..a.data_len :
                /\ j <= Len(a.x) => d.data[2 * j - 1] = a.x[j]
                /\ j <= Len(a.y) => d.data[2 * j] = a.y[j]
  /\ PlotFaulted =>
       LET a == Last(hist.adds) IN a.data_len > Len(a.x) \/ a.data_len > Len(a.y)

C5_Witness ==
  /\ pc = "build"
  /\ Len(fig.data) = 1
  /\ Mismatched(hist.adds[1])
  /\ hist.adds[1].data_len = MaxLen - 1
  /\ fig.data[1].length = MaxLen - 1

(***************************************************************************)
(* C6.  As claimed: with an axis style other than standard/center, or a    *)
(* legend position other than the four recognized ones, in the figure, no  *)
(* file is opened, no markup is written and the process is not ended.      *)
(***************************************************************************)
RecognizedPositions == {"", "north east", "south east", "south west", "north west"}
RecognizedStyles == {"standard", "center"}
C6_RejectedBeforeIO ==
  (fig.type \notin RecognizedStyles \/ fig.legend_position \notin RecognizedPositions)
    => (fp.state = "none" /\ out = <<>> /\ files = {} /\ pc # "exited")

(***************************************************************************)
(* C6, amended.  plt_axes_type accepts any style; plt_save_fig rejects a   *)
(* style other than standard/center only after it has opened the output    *)
(* file and written (after the preamble, in compiled mode) the three lines *)
(* that open the figure and the axis block: it prints an error and ends    *)
(* the process with exit(1), the figure not released, the file not closed  *)
(* and no command run.  A legend position is never validated: any          *)
(* non-empty text is written as the legend position option.                *)
(***************************************************************************)
AxisError == "ERROR: please set axis type"
OpeningLines == <<[k |-> "begin_tikzpicture"], [k |-> "begin_axis"],
                  [k |-> "open_bracket"]>>
C6_RejectedInSave ==
  /\ (SaveStarted /\ fig.type \notin RecognizedStyles) =>
       /\ fp.state # "closed"
       /\ heap.figure = "live"
       /\ sys = <<>>
       /\ fp.state = "open" =>
            /\ pc = "exited"
            /\ Last(msgs) = AxisError
            /\ fp.path \in files
            /\ out = (IF CompiledSuffix(hist.target) THEN preamble ELSE <<>>)
                     \o OpeningLines
  /\ (pc = "exited" /\ Last(msgs) = AxisError) => fig.type \notin RecognizedStyles
  /\ BodyWritten =>
       /\ fig.legend_position # "" <=>
            (Has(out, "legend_pos")
               /\ out[IndexOf(out, "legend_pos")].s = fig.legend_position)
       /\ \A i \in 1..Len(msgs) : msgs[i] # AxisError

C6_Witness ==
  /\ fig.type = "polar"
  /\ pc = "exited"
  /\ fp.state = "open"
  /\ out = OpeningLines

C6_WitnessLegend ==
  /\ BodyWritten
  /\ fig.legend_position = "middle"
  /\ Has(out, "legend_pos")

(***************************************************************************)
(* C7.  As claimed: whenever the file plt_save_fig is about to write       *)
(* cannot be opened, it ends with the open error, has written nothing and  *)
(* never goes on to write the figure body through the unopened stream.     *)
(***************************************************************************)
OpenError == "Error: Could not open file"
C7_OpenFailureStops ==
  fp.state = "null" =>
    /\ pc = "exited"
    /\ msgs # <<>> /\ Last(msgs) = OpenError
    /\ out = <<>>
    /\ \A i \in 1..Len(events) : events[i] # "body"

(***************************************************************************)
(* C8.  As claimed: the option lines are exactly one line per option that  *)
(* is set, none for an unset one, in the order x-range, y-range, grid,     *)
(* width, height, x-label, y-label, legend position; a range is set iff    *)
(* one of its bounds is non-zero, width and height iff given non-zero,     *)
(* the grid iff enabled, a label or the legend position iff non-empty.     *)
(***************************************************************************)
Given(name) == name \notin uninit
SetOptions ==
  (IF fig.xmin # 0 \/ fig.xmax # 0 THEN <<"xrange">> ELSE <<>>)
  \o (IF fig.ymin # 0 \/ fig.ymax # 0 THEN <<"yrange">> ELSE <<>>)
  \o (IF Given("grid") /\ fig.grid # 0 THEN <<"grid">> ELSE <<>>)
  \o (IF Given("width") /\ fig.width # 0 THEN <<"width">> ELSE <<>>)
  \o (IF Given("height") /\ fig.height # 0 THEN <<"height">> ELSE <<>>)
  \o (IF fig.xlabel # "" THEN <<"xlabel">> ELSE <<>>)
  \o (IF fig.ylabel # "" THEN <<"ylabel">> ELSE <<>>)
  \o (IF fig.legend_position # "" THEN <<"legend_pos">> ELSE <<>>)
C8_OptionLines == BodyWritten => OptionKinds(out) = SetOptions

\* the same, leaving aside the lines of the fields plt_figure never wrote
IsGiven(kind) == kind \notin uninit
C8_OptionLinesOfWrittenFields ==
  BodyWritten => SelectSeq(OptionKinds(out), IsGiven) = SetOptions

(***************************************************************************)
(* C9.  For every series: a line entry holds a color line iff the color is *)
(* non-empty; a stem entry carries the color in its header, even when      *)
(* empty, and no color line; and for both kinds a legend line is written   *)
(* iff the legend is non-empty, as the last item of the entry, right after *)
(* the end of its coordinate list.                                         *)
(***************************************************************************)
C9_ColorAndLegend ==
  BodyWritten =>
    \A n \in 1..Len(hist.adds) :
      LET e == Entry(out, n)
          a == hist.adds[n]
          c == IF a.color # "" THEN 1 ELSE 0
          head == IF a.type = "plot" THEN 2 + c ELSE 1
          body == head + a.data_len + 1
      IN  /\ a.type = "plot" =>
                /\ e[1].k = "addplot"
                /\ Has(e, "color") <=> a.color # ""
                /\ a.color # "" => e[2] = [k |-> "color", s |-> a.color]
                /\ e[head].k = "coordinates"
          /\ a.type = "stem" =>
                /\ e[1] = [k |-> "addplot_ycomb", s |-> a.color]
                /\ ~Has(e, "color")
          /\ \A i \in 1..a.data_len : e[head + i].k = "coord"
          /\ e[body].k = "end_coordinates"
          /\ Has(e, "addlegendentry") <=> a.legend # ""
          /\ Len(e) = body + (IF a.legend # "" THEN 1 ELSE 0)
          /\ a.legend # "" => Last(e) = [k |-> "addlegendentry", s |-> a.legend]

C9_Witness ==
  /\ BodyWritten
  /\ Len(hist.adds) = 2
  /\ hist.adds[1].type = "stem" /\ hist.adds[1].color = ""
  /\ hist.adds[1].legend # ""
  /\ hist.adds[2].type = "plot" /\ hist.adds[2].color = ""
  /\ hist.adds[2].legend = ""
  /\ out[NthStart(out, 2) - 1].k = "addlegendentry"

(***************************************************************************)
(* C10.  As claimed: right after plt_figure every field holds its default  *)
(* (style standard, ranges, width and height zero, grid off, labels and    *)
(* legend position empty, no series), and a figure saved with no call in   *)
(* between has no option line and no plot-entry.                           *)
(***************************************************************************)
NoCallsMade == budget = MaxCalls
C10_Defaults ==
  /\ (NoCallsMade /\ pc = "build") =>
       /\ uninit = {}
       /\ fig.type = "standard"
       /\ fig.xmin = 0 /\ fig.xmax = 0 /\ fig.ymin = 0 /\ fig.ymax = 0
       /\ fig.grid = 0 /\ fig.width = 0 /\ fig.height = 0
       /\ fig.xlabel = "" /\ fig.ylabel = "" /\ fig.legend_position = ""
       /\ fig.data = <<>>
  /\ (NoCallsMade /\ BodyWritten) =>
       /\ OptionKinds(out) = <<>>
       /\ Starts(out) = {}

\* the second half alone: what the missing defaults let through
C10_FreshFigureHasNoOptions ==
  (NoCallsMade /\ BodyWritten) => OptionKinds(out) = <<>>

(***************************************************************************)
(* C11.  Whenever plt_save_fig returns, in either mode, the figure and     *)
(* every series have been freed, each once, by the one call of clean_up;   *)
(* that call comes after every step that writes markup (the body, and in   *)
(* compiled mode the end of the document), and the steps after it          *)
(* (fclose, pdflatex, rm) work on the stream and on the local copies of    *)
(* the file names only, never on the figure.                               *)
(***************************************************************************)
Positions(k) == {i \in 1..Len(events) : events[i] = k}
ReadsFigure == {"fopen", "preamble", "body", "end_document", "clean_up"}
C11_WitnessRaw ==
  /\ pc = "returned"
  /\ ~CompiledSuffix(hist.target)
  /\ Len(fig.data) = 1
  /\ heap.figure = "freed"

(***************************************************************************)
(* C12.  As claimed: however plt_save_fig ends once it has opened its      *)
(* output file (return or one of its failure exits), the file is closed.   *)
(***************************************************************************)
SaveEnded == SaveStarted /\ pc \in {"returned", "exited", "crashed"}
Opened == fp.state \in {"open", "closed"}
C12_ClosedOnEveryExit == (SaveEnded /\ Opened) => fp.state = "closed"

(***************************************************************************)
(* C12, amended.  plt_save_fig calls fclose exactly once on every path     *)
(* that gets past the markup, and before it runs any command: on return,   *)
(* on a compiler failure and on a cleanup failure the opened file is       *)
(* closed.  On the unrecognized axis style exit it calls exit(1) without   *)
(* fclose: the file it opened is still open when the process is ended,     *)
(* and that is the only end that leaves it open.  The plot kind exit of    *)
(* write_data is never taken: plt_plot and plt_stem only make series of    *)
(* the kinds "plot" and "stem".                                            *)
(***************************************************************************)
PlotKindError == "ERROR: invalid plot type"
C12_ClosedUnlessAxisExit ==
  /\ \A i \in 1..Len(msgs) : msgs[i] # PlotKindError
  /\ \A i \in 1..Len(fig.data) : fig.data[i].type \in {"plot", "stem"}
  /\ (SaveEnded /\ Opened) =>
       /\ fp.state = "open" <=> (pc = "exited" /\ Last(msgs) = AxisError)
       /\ fp.state = "open" => Positions("fclose") = {}
       /\ fp.state = "closed" =>
            /\ Cardinality(Positions("fclose")) = 1
            /\ pc = "returned"
                 \/ (pc = "exited" /\ Last(msgs) \in {CompileError, RemoveError})
            /\ \A c \in Positions("fclose") :
                 \A i \in 1..Len(events) :
                   events[i] \in {"pdflatex", "rm"} => c < i

C12_Witness ==
  /\ pc = "exited"
  /\ Last(msgs) = AxisError
  /\ CompiledSuffix(hist.target)
  /\ fp.state = "open"
  /\ fp.path \in files

C12_WitnessClosed ==
  /\ pc = "exited"
  /\ Last(msgs) = CompileError
  /\ fp.state = "closed"

(***************************************************************************)
(* C13.  While the figure is being built, every call that returns either   *)
(* is a plotting call, which puts exactly one series (of the kind, color   *)
(* and legend it was given) after the series already there and changes     *)
(* nothing else of the figure, or is a setter, which leaves the series     *)
(* and every field other than the fields of one setter (type; xmin, xmax;  *)
(* ymin, ymax; width, height; grid; xlabel; ylabel; legend_position) as    *)
(* they were.  A plotting call in which the process faults changes         *)
(* nothing.                                                                *)
(***************************************************************************)
SetterFields ==
  {{"type"}, {"xmin", "xmax"}, {"ymin", "ymax"}, {"width", "height"}, {"grid"},
   {"xlabel"}, {"ylabel"}, {"legend_position"}}
SameOutside(F) == \A f \in (DOMAIN fig) \ F : fig'[f] = fig[f]
C13_AppendOnlyAndFrame ==
  [][(pc = "build" /\ budget' = budget - 1) =>
       IF Len(hist'.adds) > Len(hist.adds)
         THEN IF pc' = "build"
                THEN /\ Len(fig'.data) = Len(fig.data) + 1
                     /\ SubSeq(fig'.data, 1, Len(fig.data)) = fig.data
                     /\ SameOutside({"data"})
                     /\ LET d == Last(fig'.data)
                            a == Last(hist'.adds)
                        IN  /\ d.type = a.type /\ d.color = a.color
                            /\ d.legend = a.legend /\ d.length = a.data_len
                ELSE fig' = fig
         ELSE /\ pc' = "build"
              /\ fig'.data = fig.data
              /\ \E F \in SetterFields : SameOutside(F)]_vars

C13_Witness ==
  /\ pc = "build"
  /\ budget = 0
  /\ Len(fig.data) = 1
  /\ fig.data[1].type = "stem"
  /\ fig.xmax # 0
  /\ fig.ymin = 0 /\ fig.ymax = 0

C13_WitnessTwoSeries ==
  /\ pc = "build"
  /\ Len(fig.data) = 2
  /\ fig.data[1].type = "plot" /\ fig.data[2].type = "stem"

====
